---- MODULE Spec2Model ----
(***************************************************************************)
(* Model of the NSE-BSE MCP server's Response Governor                     *)
(* (src/src/utils/response-limiter.ts), of the tool handlers that feed it  *)
(* and of the document retrieval engine (document-handler, whose text is   *)
(* in src/README.md lines 321-855).                                        *)
(*                                                                         *)
(* JSON values are modelled structurally.  A text (the output of           *)
(* JSON.stringify(v, null, 2) or a JS string) is modelled by the number of *)
(* whitespace-delimited tokens it holds, which is the only thing the       *)
(* limiter reads from it (countWords, truncateToWords).                    *)
(***************************************************************************)
EXTENDS Integers, Sequences, FiniteSets, TLC

VARIABLES
    result,     \* the value a market-data tool produced (any JSON-like value)
    args,       \* the tool call's filter arguments: max_items, fields, summary
    limited,    \* what limitResponse returned: data, truncated, message, metadata
    gpc,        \* position of the tool handler: "idle" | "called" | "returned"
    call,       \* the document tool calls: arguments, position, fetch state
    fs,         \* the files of the cache directory downloads/documents
    rootDir,    \* does the cache directory downloads/documents exist
    crashed,    \* an exception escaped a callback: the process has exited
    xin,        \* the file handed to the extractor and the page options
    xres,       \* the DownloadResult the retrieval entry point built
    xpc,        \* position of the extraction: "idle" | "called" | "returned"
    zcall,      \* the calls that reached the .zip branch: position, result
    extractPath, \* the extraction directory z_extracted: exists, entries held
    archive     \* the entries of the archive z.zip

gvars == <<result, args, limited, gpc>>
dvars == <<call, fs, rootDir, crashed>>
zvars == <<zcall, extractPath, archive>>
xvars == <<xin, xres, xpc, zcall, extractPath, archive>>
vars ==
    <<result, args, limited, gpc, call, fs, rootDir, crashed, xin, xres, xpc,
      zcall, extractPath, archive>>

(***************************************************************************)
(* Program constants                                                       *)
(***************************************************************************)
MAX_WORDS == 3500
CHARS_PER_WORD == 5

\* Tokens of the marker truncateToWords appends:
\* "[... N more words truncated. Use filters to get specific data.]"
MarkerWords == 11

(***************************************************************************)
(* Bounds of the model                                                     *)
(***************************************************************************)
MidW == 300         \* tokens of a medium string scalar
BigW == 1200        \* tokens of a long string scalar
HugeW == 4000       \* tokens of a string scalar that alone exceeds the ceiling
MaxHead == 3        \* list inputs: number of leading items of one shape
MaxTail == 4        \* list inputs: number of trailing items of another shape
LongLen == 900      \* length of the long list of small records
MaxFieldLen == 21   \* record inputs: length of the top-level list field
MaxCap == 4         \* largest max_items argument
MaxCalls == 2       \* document tool calls in one run
MaxHops == 2        \* requests one fetch may issue (redirects followed + 1)
MaxSizeMB == 1      \* largest max_size_mb argument; sizes are counted in MB
MaxBody == 2        \* most MB a server sends in one response body
MaxPages == 5       \* most pages of a PDF
MaxSel == 6         \* largest ordinary start_page / end_page argument
BigPage == 10000    \* a page number far past the end of any document
MaxListPage == 3    \* largest number in a pages argument
MaxListLen == 3     \* longest pages argument
MaxEntries == 3     \* most files of an extracted archive
MaxZipCalls == 3    \* retrieval calls of one archive in one run
MaxArchive == 3     \* most entries of the archive

Min(a, b) == IF a <= b THEN a ELSE b
Max(a, b) == IF a >= b THEN a ELSE b

(***************************************************************************)
(* JSON-like values.  Every value has the same four fields:                *)
(*   kind   "undefined" | "null" | "scalar" | "list" | "record"            *)
(*          | "text" | "summary" | "truncated" | "showing"  (JS strings    *)
(*          the limiter builds)                                            *)
(*   w      scalar, text, truncated: tokens of its serialized form (>= 1); *)
(*          summary: the total item count; showing: the original length    *)
(*          quoted by "Showing 10 of N items"                              *)
(*   items  list: its elements; summary: the first 3 items                 *)
(*   fields record: its <<key, value>> entries in key order;               *)
(*          summary: one entry per token of the "Available fields" line    *)
(***************************************************************************)
Undefined == [kind |-> "undefined", w |-> 0, items |-> <<>>, fields |-> <<>>]
JNull == [kind |-> "null", w |-> 1, items |-> <<>>, fields |-> <<>>]
Scalar(n) == [kind |-> "scalar", w |-> n, items |-> <<>>, fields |-> <<>>]
JList(s) == [kind |-> "list", w |-> 0, items |-> s, fields |-> <<>>]
JRec(f) == [kind |-> "record", w |-> 0, items |-> <<>>, fields |-> f]
Field(k, v) == [key |-> k, val |-> v]

Keys(v) == [i \in 1..Len(v.fields) |-> v.fields[i].key]
HasKey(v, k) == \E i \in 1..Len(v.fields) : v.fields[i].key = k
Get(v, k) == v.fields[CHOOSE i \in 1..Len(v.fields) : v.fields[i].key = k].val
Take(s, n) == SubSeq(s, 1, Min(Max(n, 0), Len(s)))
Copies(n, x) == [i \in 1..n |-> x]

\* typeof v === 'object' && v !== null, for a value that is not an array
IsObject(v) == v.kind = "record"
IsArray(v) == v.kind = "list"
\* typeof v === 'object' && v !== null: true of records and of arrays
TypeofObject(v) == v.kind \in {"record", "list"}
\* Object.keys(v) and for (key in v): the keys of a record, the indices of
\* an array
IndexNames == <<"0", "1", "2", "3">>
ObjectKeys(v) == IF IsArray(v) THEN Take(IndexNames, Len(v.items)) ELSE Keys(v)
\* key in v
HasProperty(v, k) ==
    IF IsArray(v)
    THEN k = "length" \/ \E i \in 1..Len(v.items) : i <= Len(IndexNames) /\ IndexNames[i] = k
    ELSE HasKey(v, k)
\* v[key]
GetProperty(v, k) ==
    IF IsArray(v)
    THEN IF k = "length" THEN Scalar(1)
         ELSE v.items[CHOOSE i \in 1..Len(v.items) : IndexNames[i] = k]
    ELSE Get(v, k)
\* typeof v === 'string'
IsString(v) == v.kind \in {"text", "summary", "truncated", "showing"}
Text(n) == [kind |-> "text", w |-> n, items |-> <<>>, fields |-> <<>>]
\* `Showing 10 of ${originalLength} items`
Showing(n) == [kind |-> "showing", w |-> n, items |-> <<>>, fields |-> <<>>]

(***************************************************************************)
(* JSON.stringify(v, null, 2) followed by countWords: the number of        *)
(* whitespace-delimited tokens of the pretty-printed text.  Brackets and   *)
(* braces stand on lines of their own, a key and its colon are one token,  *)
(* the comma after an element joins the element's last token, and the      *)
(* empty list and record print as "[]" and "{}".                           *)
(***************************************************************************)
RECURSIVE JsonWords(_)
RECURSIVE ItemsWords(_)
RECURSIVE FieldsWords(_)

\* The sums split the sequence in halves, to keep the evaluation shallow.
ItemsWords(s) ==
    IF Len(s) = 0 THEN 0
    ELSE IF Len(s) = 1
    THEN JsonWords(IF s[1].kind = "undefined" THEN JNull ELSE s[1])
    ELSE ItemsWords(SubSeq(s, 1, Len(s) \div 2))
         + ItemsWords(SubSeq(s, Len(s) \div 2 + 1, Len(s)))

FieldsWords(f) ==
    IF Len(f) = 0 THEN 0
    ELSE IF Len(f) = 1
    THEN (IF f[1].val.kind = "undefined" THEN 0 ELSE 1 + JsonWords(f[1].val))
    ELSE FieldsWords(SubSeq(f, 1, Len(f) \div 2))
         + FieldsWords(SubSeq(f, Len(f) \div 2 + 1, Len(f)))

JsonWords(v) ==
    CASE v.kind = "null" -> 1
      [] v.kind = "scalar" -> v.w
      [] v.kind = "text" -> v.w
      [] v.kind = "truncated" -> v.w
      [] v.kind = "showing" -> 5
      [] v.kind = "summary" ->
            3 + 2 + Len(v.fields)
              + 3 + (IF v.items = <<>> THEN 1 ELSE 2 + ItemsWords(v.items))
      [] v.kind = "list" ->
            IF v.items = <<>> THEN 1 ELSE 2 + ItemsWords(v.items)
      [] v.kind = "record" ->
            IF FieldsWords(v.fields) = 0 THEN 1 ELSE 2 + FieldsWords(v.fields)
      [] OTHER -> 0

\* countWords(text): text.trim().split(/\s+/).length; the empty text gives 1
countWords(text) == IF text = 0 THEN 1 ELSE text

\* JSON.stringify(v, null, 2), as a text
Stringify(v) == JsonWords(v)

(***************************************************************************)
(* LimitOptions.  maxItems is a JS number or undefined, fields a list of   *)
(* names or undefined, summary a boolean (undefined behaves as false).     *)
(***************************************************************************)
NoNumber == [defined |-> FALSE, n |-> 0]
Number(k) == [defined |-> TRUE, n |-> k]
NoFields == [defined |-> FALSE, names |-> <<>>]
FieldList(s) == [defined |-> TRUE, names |-> s]

\* JS truthiness of a number-or-undefined and of a list-or-undefined
TruthyNumber(m) == m.defined /\ m.n # 0
TruthyFields(f) == f.defined

\* handlers/nse-handler.ts extractLimitOptions
extractLimitOptions(a) ==
    [maxItems |-> a.max_items, fields |-> a.fields, summary |-> a.summary]

\* truncateToWords(text, maxWords): the first maxWords tokens and the marker
truncateToWords(text, maxWords) ==
    IF countWords(text) <= maxWords THEN text ELSE maxWords + MarkerWords

\* The field filter of limitArrayData applied to one item: the listed fields
\* the item has, in the order of the list, each once.  An item that is an
\* array passes the typeof test and is rebuilt as a record too.
ProjectItem(item, names) ==
    IF ~TypeofObject(item) THEN item
    ELSE LET keep == SelectSeq([i \in 1..Len(names) |-> i],
                        LAMBDA i : HasProperty(item, names[i])
                                   /\ \A j \in 1..(i - 1) : names[j] # names[i])
         IN  JRec([i \in 1..Len(keep) |->
                      Field(names[keep[i]], GetProperty(item, names[keep[i]]))])

limitArrayData(d, opts) ==
    IF ~IsArray(d) \/ Len(d.items) = 0 THEN d
    ELSE LET capped == IF TruthyNumber(opts.maxItems) /\ opts.maxItems.n > 0
                       THEN Take(d.items, opts.maxItems.n)
                       ELSE d.items
             projected == IF opts.fields.defined /\ Len(opts.fields.names) > 0
                             /\ Len(capped) > 0
                          THEN [i \in 1..Len(capped) |->
                                   ProjectItem(capped[i], opts.fields.names)]
                          ELSE capped
         IN  JList(projected)

\* extractSchema: type names are one token each
extractSchema(d) ==
    IF IsArray(d) /\ Len(d.items) > 0
    THEN IF TypeofObject(d.items[1])
         THEN JRec([i \in 1..Len(ObjectKeys(d.items[1])) |->
                      Field(ObjectKeys(d.items[1])[i], Scalar(1))])
         ELSE JNull
    ELSE IF TypeofObject(d)
         THEN JRec([i \in 1..Len(d.fields) |->
                      Field(d.fields[i].key,
                            IF IsArray(d.fields[i].val)
                            THEN JRec(<<Field("type", Scalar(1)),
                                        Field("length", Scalar(1))>>)
                            ELSE Scalar(1))])
         ELSE JNull

\* getAvailableFields: the keys of the first item, or of the record
getAvailableFields(d) ==
    IF IsArray(d) /\ Len(d.items) > 0
    THEN IF TypeofObject(d.items[1]) THEN FieldList(ObjectKeys(d.items[1]))
         ELSE NoFields
    ELSE IF TypeofObject(d) THEN FieldList(ObjectKeys(d)) ELSE NoFields

\* An estimate that is never below 10
ItemsThatFit_AtLeast10(sampleItems, n) ==
    Max(10, (MAX_WORDS * n) \div countWords(Stringify(JList(sampleItems))))

\* Math.floor(MAX_WORDS / (countWords(sampleStr) / n)), in integers
ItemsThatFit(sampleItems, n) ==
    (MAX_WORDS * n) \div countWords(Stringify(JList(sampleItems)))

\* A recommendation that forgets the floor of 10
RecommendedMaxItems_NoFloor(d) == ItemsThatFit(Take(d.items, 3), 3)

\* recommendedFilters.maxItems: Math.max(10, maxItems)
RecommendedMaxItems(d) == Max(10, ItemsThatFit(Take(d.items, 3), 3))

createResponseMetadata(d, wordCount) ==
    LET exceedsLimit == wordCount > MAX_WORDS
        availableFields == getAvailableFields(d)
    IN  [totalItems |-> IF IsArray(d) THEN Number(Len(d.items)) ELSE NoNumber,
         totalWords |-> wordCount,
         estimatedTokens |-> (wordCount * 13 + 9) \div 10,
         availableFields |-> availableFields,
         schema |-> extractSchema(d),
         sampleData |-> IF IsArray(d) THEN JList(Take(d.items, 3))
                        ELSE IF IsObject(d) THEN JRec(Take(d.fields, 5))
                        ELSE Undefined,
         exceedsLimit |-> exceedsLimit,
         recommendedFilters |->
            IF exceedsLimit /\ IsArray(d) /\ Len(d.items) > 0
            THEN [defined |-> TRUE,
                  maxItems |-> RecommendedMaxItems(d),
                  suggestedFields |->
                      IF availableFields.defined
                      THEN FieldList(Take(availableFields.names, 7))
                      ELSE NoFields]
            ELSE [defined |-> FALSE, maxItems |-> 0, suggestedFields |-> NoFields]]

NoMetadata ==
    [totalItems |-> NoNumber, totalWords |-> 0, estimatedTokens |-> 0,
     availableFields |-> NoFields, schema |-> Undefined, sampleData |-> Undefined,
     exceedsLimit |-> FALSE,
     recommendedFilters |->
        [defined |-> FALSE, maxItems |-> 0, suggestedFields |-> NoFields]]

NameList(f) == JList([i \in 1..Len(f.names) |-> Scalar(1)])

\* The metadata object as the JSON value that is serialized (undefined
\* properties are omitted by JSON.stringify)
MetadataJson(m) ==
    JRec(<<Field("totalItems",
                 IF m.totalItems.defined THEN Scalar(1) ELSE Undefined),
           Field("totalWords", Scalar(1)),
           Field("estimatedTokens", Scalar(1)),
           Field("availableFields",
                 IF m.availableFields.defined THEN NameList(m.availableFields)
                 ELSE Undefined),
           Field("schema", m.schema),
           Field("sampleData", m.sampleData),
           Field("exceedsLimit", Scalar(1)),
           Field("recommendedFilters",
                 IF m.recommendedFilters.defined
                 THEN JRec(<<Field("maxItems", Scalar(1)),
                             Field("suggestedFields",
                                   IF m.recommendedFilters.suggestedFields.defined
                                   THEN NameList(m.recommendedFilters.suggestedFields)
                                   ELSE Undefined)>>)
                 ELSE Undefined)>>)

\* A summary that counts the items of its sample
createArraySummary_CountsSample(d) ==
    IF ~IsArray(d) \/ Len(d.items) = 0
    THEN Text(3)
    ELSE [kind |-> "summary", w |-> Len(Take(d.items, 3)), items |-> Take(d.items, 3),
          fields |-> IF TypeofObject(d.items[1])
                     THEN [i \in 1..Len(ObjectKeys(d.items[1])) |->
                              Field(ObjectKeys(d.items[1])[i], Scalar(1))]
                     ELSE <<Field("N/A", Scalar(1))>>]

\* createArraySummary: "Total items: N / Available fields: ... / First 3 items: ..."
createArraySummary(d) ==
    IF ~IsArray(d) \/ Len(d.items) = 0
    THEN Text(3)
    ELSE [kind |-> "summary", w |-> Len(d.items), items |-> Take(d.items, 3),
          fields |-> IF TypeofObject(d.items[1])
                     THEN [i \in 1..Len(ObjectKeys(d.items[1])) |->
                              Field(ObjectKeys(d.items[1])[i], Scalar(1))]
                     ELSE <<Field("N/A", Scalar(1))>>]

(***************************************************************************)
(* limitResponse                                                           *)
(***************************************************************************)
NoMessage == [tag |-> "", shown |-> 0, of |-> 0]
Message(t, a, b) == [tag |-> t, shown |-> a, of |-> b]

Limited(d, t, msg, hasMeta, meta) ==
    [data |-> d, truncated |-> t, message |-> msg,
     hasMetadata |-> hasMeta, metadata |-> meta]

\* const hasFilters = options.maxItems || options.fields || options.summary
hasFilters(opts) ==
    TruthyNumber(opts.maxItems) \/ TruthyFields(opts.fields) \/ opts.summary

\* The no-filter answer: the metadata, a message and the instructions
MetadataResponse(d, wordCount) ==
    LET metadata == createResponseMetadata(d, wordCount)
    IN  Limited(JRec(<<Field("_metadata", MetadataJson(metadata)),
                       Field("_message", Text(15)),
                       Field("_instructions",
                             IF metadata.recommendedFilters.defined
                             THEN Text(5) ELSE Text(11))>>),
                TRUE,
                Message("metadata",
                        IF metadata.totalItems.defined THEN metadata.totalItems.n
                        ELSE 0,
                        wordCount),
                TRUE, metadata)

\* Strategy 2: every top-level list of more than 10 elements is cut to 10
\* and gets a sibling `${key}_truncated`.  The loop runs over the keys the
\* copy had when it started; a sibling replaces a field of the same name.
SetField(f, k, v) ==
    IF \E i \in 1..Len(f) : f[i].key = k
    THEN [i \in 1..Len(f) |-> IF f[i].key = k THEN Field(k, v) ELSE f[i]]
    ELSE Append(f, Field(k, v))

\* A note that reads the length after the slice
TruncationNote_AfterSlice(val) == Showing(Len(Take(val.items, 10)))

\* `Showing 10 of ${originalLength} items`, originalLength read before the slice
TruncationNote(val) == Showing(Len(val.items))

RECURSIVE TruncateArrays(_, _)
TruncateArrays(f, keys) ==
    IF keys = <<>> THEN f
    ELSE LET key == Head(keys)
             val == Get(JRec(f), key)
         IN  IF IsArray(val) /\ Len(val.items) > 10
             THEN TruncateArrays(
                      SetField(SetField(f, key, JList(Take(val.items, 10))),
                               key \o "_truncated", TruncationNote(val)),
                      Tail(keys))
             ELSE TruncateArrays(f, Tail(keys))

\* A size test that mixes the character and the word ceilings
WithinLimit_Chars(wordCount) == wordCount * CHARS_PER_WORD <= MAX_WORDS

\* if (wordCount <= MAX_WORDS)
WithinLimit(wordCount) == wordCount <= MAX_WORDS

limitResponse(d, opts) ==
    IF d.kind \in {"null", "undefined"}
    THEN Limited(d, FALSE, NoMessage, FALSE, NoMetadata)
    ELSE
    LET wordCount == countWords(Stringify(d))
    IN  IF WithinLimit(wordCount)
        THEN Limited(d, FALSE, NoMessage, FALSE, NoMetadata)
        ELSE IF ~hasFilters(opts)
        THEN MetadataResponse(d, wordCount)
        ELSE IF IsArray(d) /\ opts.summary
        THEN Limited(createArraySummary(d), TRUE,
                     Message("summary", 0, wordCount), FALSE, NoMetadata)
        ELSE
        LET sampleSize == Min(3, Len(d.items))
            maxItems == ItemsThatFit(Take(d.items, sampleSize), sampleSize)
            limitedData ==
                IF IsArray(d)
                THEN limitArrayData(d,
                        [maxItems |-> IF TruthyNumber(opts.maxItems)
                                      THEN opts.maxItems ELSE Number(maxItems),
                         fields |-> opts.fields])
                ELSE IF IsObject(d)
                THEN JRec(TruncateArrays(d.fields, Keys(d)))
                ELSE d
            message ==
                IF IsArray(d)
                THEN Message("limited", Len(limitedData.items), Len(d.items))
                ELSE IF IsObject(d) /\ limitedData # d
                THEN Message("arrays_truncated", 0, 0)
                ELSE NoMessage
            jsonStr == Stringify(limitedData)
        IN  IF countWords(jsonStr) > MAX_WORDS
            THEN Limited([kind |-> "truncated",
                          w |-> truncateToWords(jsonStr, MAX_WORDS),
                          items |-> <<>>, fields |-> <<>>],
                         TRUE,
                         IF message # NoMessage THEN message
                         ELSE Message("truncated_to_words", MAX_WORDS, 0),
                         FALSE, NoMetadata)
            ELSE Limited(limitedData, TRUE,
                         IF message # NoMessage THEN message
                         ELSE Message("overflow", 0, 0),
                         FALSE, NoMetadata)

\* A formatting that prepends the metadata banner only
formatLimitedResponse_NoAdvisory(lim) ==
    [banner |-> IF lim.hasMetadata THEN "metadata" ELSE "none", body |-> lim.data]

\* formatLimitedResponse, after its call of limitResponse: the text is the
\* data (a string as it is, any other value serialized), with the metadata
\* banner before it when there is metadata, else with the advisory line
\* when the result is truncated and has a message.
formatLimitedResponse(lim) ==
    [banner |-> IF lim.hasMetadata THEN "metadata"
                ELSE IF lim.truncated /\ lim.message # NoMessage THEN "advisory"
                ELSE "none",
     body |-> lim.data]

(***************************************************************************)
(* Inputs of the governor: the bounded values and filter arguments         *)
(***************************************************************************)
\* an item that is itself a list (a row of values)
Row == JList(<<Scalar(1), Scalar(BigW)>>)
SmallRec == JRec(<<Field("a", Scalar(1)), Field("b", Scalar(1))>>)
BigRec == JRec(<<Field("a", Scalar(BigW)), Field("b", Scalar(1)),
                 Field("c", Scalar(2))>>)

ItemShapes == {Scalar(1), Scalar(BigW), Scalar(HugeW), SmallRec, BigRec, Row}

ListValues ==
    {JList(Copies(n, x) \o Copies(m, y)) :
        <<n, m, x, y>> \in (0..MaxHead) \X (0..MaxTail) \X ItemShapes \X ItemShapes}
    \cup {JList(Copies(LongLen, SmallRec))}

\* records with a list field and a string field, and the same records with
\* a third field that bears the name of the list's truncation note
RecordValues ==
    {JRec(<<Field("items", JList(Copies(n, x))), Field("name", Scalar(w))>> \o extra) :
        <<n, x, w>> \in (0..MaxFieldLen) \X {Scalar(1), Scalar(MidW), Scalar(BigW)} \X {1, HugeW},
        extra \in {<<>>, <<Field("items_truncated", Scalar(2))>>}}

Values ==
    ListValues \cup RecordValues
    \cup {JNull, Undefined, Scalar(1), Scalar(HugeW)}

ToolArgs ==
    [max_items : {NoNumber, Number(-1)} \cup {Number(k) : k \in 0..MaxCap},
     fields : {NoFields, FieldList(<<>>), FieldList(<<"a">>),
               FieldList(<<"b", "a">>), FieldList(<<"z">>)},
     summary : BOOLEAN]

NotLimited == Limited(Undefined, FALSE, NoMessage, FALSE, NoMetadata)

(***************************************************************************)
(* The document retrieval engine (handlers/document-handler.ts).           *)
(*                                                                         *)
(* Node runs one callback at a time, so every action below is one          *)
(* callback (or the synchronous start of a call) run to completion.        *)
(***************************************************************************)
Calls == 1..MaxCalls

NoName == ""
NoUrl == ""
Filenames == {"a.pdf"}
Urls == {"http://h/docs/a.pdf"}
\* a filename argument with a parent segment, and a url whose path has
\* parent segments (new URL(url) resolves them: pathname is "/a.pdf")
EscapingNames == {"../a.pdf"}
EscapingUrls == {"http://h/docs/../../a.pdf"}

\* path.basename(new URL(url).pathname) || 'document'
UrlBasename(u) ==
    CASE u = "http://h/docs/a.pdf" -> "a.pdf"
      [] u = "http://h/docs/../../a.pdf" -> "a.pdf"
      [] OTHER -> "document"

\* The paths of the cache: a file in the cache root, and the files of the
\* same basename below two extraction directories, one of them deeper.
NoPath == [dir |-> "", base |-> ""]
RootPath(name) == [dir |-> "downloads/documents", base |-> name]
NestedPath(name) == [dir |-> "downloads/documents/b_extracted", base |-> name]
DeeperPath(name) == [dir |-> "downloads/documents/c_extracted/sub", base |-> name]
\* the file of that basename in the parent of the cache root
OutsidePath(name) == [dir |-> "downloads", base |-> name]
Paths ==
    {RootPath(n) : n \in Filenames} \cup {NestedPath(n) : n \in Filenames}
        \cup {DeeperPath(n) : n \in Filenames}
        \cup {OutsidePath(n) : n \in Filenames}

\* path.join(downloadDir, filename): the segments of the filename are
\* resolved, a leading ".." leaves the directory
JoinPath(filename) ==
    CASE filename = "../a.pdf" -> OutsidePath("a.pdf")
      [] OTHER -> RootPath(filename)

\* path.extname(p).toLowerCase()
ExtName(p) ==
    CASE p.base = "a.pdf" -> ".pdf"
      [] OTHER -> ""

\* A file: absent, partially written, or complete.  writer is the call
\* whose stream opened (created or truncated) it last, 0 when none did; a
\* call opens at most one stream, so writer = c says that c's stream still
\* writes to the file at the path.
AbsentFile == [state |-> "absent", writer |-> 0]
CachedFile == [state |-> "complete", writer |-> 0]

\* A file test that never finds the file
existsSync_Never(p) == FALSE

\* fs.existsSync(p)
existsSync(p) == fs[p].state # "absent"

\* getAllFiles(downloadDir).filter(f => path.basename(f) === filename):
\* the root is listed before its subdirectories' files are reached here,
\* but the direct path was already found absent when this is called.
FoundFiles(filename) ==
    IF filename \in Filenames
    THEN SelectSeq(<<RootPath(filename), NestedPath(filename), DeeperPath(filename)>>,
                   existsSync)
    ELSE <<>>      \* no basename holds a separator

IdleCall ==
    [tool |-> "none", filename |-> NoName, url |-> NoUrl, maxBytes |-> 0,
     pc |-> "idle", filepath |-> NoPath,
     hop |-> 0, req |-> "none", status |-> 0, oversize |-> FALSE,
     stream |-> "none", downloadedBytes |-> 0,
     promise |-> "none", payload |-> "none", after |-> {}]

Failures == {"SizeExceeded", "HttpError", "Timeout", "IOError"}

\* reject(e) / resolve(): only the first settlement of the promise counts;
\* the awaiting async function resumes afterwards.
Settle(r, outcome) ==
    IF r.promise = "pending"
    THEN [r EXCEPT !.promise = outcome, !.pc = "settled"]
    ELSE r

\* A fetch that is not started while another call is fetching to the path
StartFetch_Exclusive(r, p) ==
    IF \E b \in Calls : call[b].pc = "fetching" /\ call[b].filepath = p
    THEN [r EXCEPT !.filepath = p, !.pc = "settled"]
    ELSE [r EXCEPT !.filepath = p, !.hop = 1, !.req = "sent",
                   !.promise = "pending", !.pc = "fetching"]

\* downloadFile(url, filepath, maxSizeMB) is called: the first request is sent
StartFetch(r, p) ==
    [r EXCEPT !.filepath = p, !.hop = 1, !.req = "sent",
              !.promise = "pending", !.pc = "fetching"]

\* A cache hit that downloads all the same
UseCached_Refetch(r, p) == StartFetch(r, p)

\* the file was found in the cache: no fetch
UseCached(r, p) == [r EXCEPT !.filepath = p, !.pc = "settled"]

\* the catch of the entry point returns {success: false, error}, which
\* handleDocumentTool formats as an ordinary payload
ReturnFailure(r) == [r EXCEPT !.pc = "returned", !.payload = "failure"]

\* throw new Error(`Unknown tool: ${name}`) and the catch that answers it
\* with {content, isError: true}
UnknownTool(r) == [r EXCEPT !.pc = "returned", !.payload = "isError"]

\* downloadAndExtract, up to its first await
downloadAndExtract(r) ==
    IF r.url = NoUrl
    THEN ReturnFailure(r)       \* new URL(undefined) throws; caught at line 508
    ELSE LET filepath == RootPath(UrlBasename(r.url))
         IN  IF existsSync(filepath) THEN UseCached(r, filepath)
             ELSE StartFetch(r, filepath)

\* readDocumentPages, up to its first await
readDocumentPages(r) ==
    IF r.filename # NoName
    THEN LET directPath == JoinPath(r.filename)
         IN  IF existsSync(directPath) THEN UseCached(r, directPath)
             ELSE IF ~rootDir THEN ReturnFailure(r)   \* readdirSync throws
             ELSE IF FoundFiles(r.filename) # <<>>
             THEN UseCached(r, FoundFiles(r.filename)[1])
             ELSE IF r.url # NoUrl THEN StartFetch(r, directPath)
             ELSE ReturnFailure(r)
    ELSE IF r.url # NoUrl
    THEN LET filepath == RootPath(UrlBasename(r.url))
         IN  IF ~existsSync(filepath) THEN StartFetch(r, filepath)
             ELSE UseCached(r, filepath)
    ELSE ReturnFailure(r)

\* handleDocumentTool: the two tools it knows
handleDocumentTool(r) ==
    IF r.tool = "download_document" THEN downloadAndExtract(r)
    ELSE IF r.tool = "read_document_pages" THEN readDocumentPages(r)
    ELSE UnknownTool(r)

\* index.ts, the CallToolRequestSchema handler: only download_document is
\* routed to the document handler; any other name that is neither nse_* nor
\* bse_* throws "Unknown tool", which the handler's catch turns into an
\* isError payload.
CallToolRequest(r) ==
    IF r.tool = "download_document" THEN handleDocumentTool(r)
    ELSE UnknownTool(r)

Returned(c) == call[c].pc = "returned"

\* downloadFile was called by call c
Fetched(c) == call[c].hop > 0

\* A tool call arrives, through the server or at the document handler,
\* with a filename and a url of the given sets (or without).
InvokeWith(c, names, urls) ==
    /\ ~crashed
    /\ call[c].pc = "idle"
    /\ \A b \in Calls : b < c => call[b].pc # "idle"
    /\ \E tool \in {"download_document", "read_document_pages"},
          via \in {"server", "handler"},
          filename \in names \cup {NoName},
          url \in urls \cup {NoUrl},
          mb \in 1..MaxSizeMB :
          LET r == [IdleCall EXCEPT !.tool = tool,
                        !.filename = IF tool = "read_document_pages"
                                     THEN filename ELSE NoName,
                        !.url = url, !.maxBytes = mb,
                        !.after = {b \in Calls : Returned(b)}]
          IN  call' = [call EXCEPT ![c] =
                          IF via = "server" THEN CallToolRequest(r)
                          ELSE handleDocumentTool(r)]
          \* downloadAndExtract creates the cache directory (lines 411-413)
          /\ rootDir' = (rootDir \/ tool = "download_document")
    /\ UNCHANGED <<fs, crashed>>

Invoke(c) == InvokeWith(c, Filenames, Urls)

\* if (contentLength > maxBytes), skipped
TooLarge_Skipped(contentLength, maxBytes) == FALSE

\* if (contentLength > maxBytes)
TooLarge(contentLength, maxBytes) == contentLength > maxBytes

\* The response callback of protocol.get (lines 525-576).  contentLength
\* is parseInt(headers['content-length'] || '0').  A 301 carries its
\* Location header here; one without it is refused like the 404.
Response(c) ==
    /\ ~crashed
    /\ call[c].req = "sent"
    /\ \E status \in {200, 301, 404},
          contentLength \in 0..(MaxSizeMB + 1) :
          LET r == [call[c] EXCEPT !.status = status,
                          !.oversize = contentLength > call[c].maxBytes]
          IN  IF status = 301
              THEN /\ call[c].hop < MaxHops
                   /\ call' = [call EXCEPT ![c] =
                                 [@ EXCEPT !.hop = @ + 1, !.req = "sent"]]
              ELSE IF status # 200
              THEN call' = [call EXCEPT ![c] =
                              Settle([r EXCEPT !.req = "done"], "HttpError")]
              ELSE IF TooLarge(contentLength, call[c].maxBytes)
              THEN call' = [call EXCEPT ![c] =
                              Settle([r EXCEPT !.req = "done"], "SizeExceeded")]
              ELSE call' = [call EXCEPT ![c] =
                              [r EXCEPT !.req = "streaming",
                                        !.stream = "opening"]]
    /\ UNCHANGED <<fs, crashed>>

\* fs.createWriteStream(filepath) opens the file (flags 'w'): an existing
\* file is truncated, an absent one is created.  Without the cache
\* directory the open fails: the stream's 'error' callback runs
\* unlinkSync on a file that is not there, which throws.
Open(c) ==
    /\ ~crashed
    /\ call[c].stream = "opening"
    /\ LET p == call[c].filepath
       IN  IF rootDir
           THEN /\ fs' = [fs EXCEPT ![p] = [state |-> "partial", writer |-> c]]
                /\ call' = [call EXCEPT ![c].stream = "open"]
                /\ UNCHANGED crashed
           ELSE /\ call' = [call EXCEPT ![c].stream = "failed"]
                /\ crashed' = TRUE
                /\ UNCHANGED fs

\* fs.unlinkSync(filepath) in the 'data' and 'error' callbacks
BreachCleanup(p) == [fs EXCEPT ![p] = AbsentFile]

\* response.on('data'): count the chunk; past the ceiling, close the stream,
\* unlink the file and reject.  unlinkSync throws when the file is not
\* there, and nothing catches it.
Data(c) ==
    /\ ~crashed
    /\ call[c].req = "streaming"
    /\ \E n \in 1..MaxBody :
          /\ \/ call[c].downloadedBytes + n <= MaxBody
             \/ call[c].downloadedBytes > call[c].maxBytes
          /\ LET r == [call[c] EXCEPT !.downloadedBytes = Min(@ + n, MaxBody)]
                 p == call[c].filepath
             IN  IF r.downloadedBytes > r.maxBytes
                 THEN IF fs[p].state = "absent"
                      THEN /\ crashed' = TRUE
                           /\ call' = [call EXCEPT ![c] =
                                         [r EXCEPT !.stream =
                                            IF @ = "open" THEN "ended" ELSE @]]
                           /\ UNCHANGED fs
                      ELSE /\ fs' = BreachCleanup(p)
                           /\ call' = [call EXCEPT ![c] =
                                         Settle([r EXCEPT !.stream =
                                            IF @ = "open" THEN "ended" ELSE @],
                                            "SizeExceeded")]
                           /\ UNCHANGED crashed
                 ELSE /\ call' = [call EXCEPT ![c] = r]
                      /\ UNCHANGED <<fs, crashed>>

\* The response ends: the pipe ends the stream, 'finish' closes it and
\* resolves.  The file is whole once the stream that opened it last has
\* finished.
End(c) ==
    /\ ~crashed
    /\ call[c].req = "streaming"
    /\ call[c].stream # "opening"
    /\ LET p == call[c].filepath
           r == [call[c] EXCEPT !.req = "done",
                    !.stream = IF @ \in {"open", "ended"} THEN "finished" ELSE @]
       IN  /\ call' = [call EXCEPT ![c] =
                          IF call[c].stream \in {"errored", "failed"} THEN r
                          ELSE Settle(r, "resolved")]
           /\ fs' = IF call[c].stream = "open" /\ fs[p].writer = c
                    THEN [fs EXCEPT ![p].state = "complete"]
                    ELSE fs
    /\ UNCHANGED crashed

\* request.setTimeout(60000, ...): the socket stayed idle for 60 s before
\* or during the body.  The request is destroyed and the promise rejected;
\* the write stream is left as it is.
Timeout(c) ==
    /\ ~crashed
    /\ call[c].req \in {"sent", "streaming"}
    /\ call[c].stream # "opening"
    /\ call' = [call EXCEPT ![c] = Settle([@ EXCEPT !.req = "done"], "Timeout")]
    /\ UNCHANGED <<fs, crashed>>

\* The timer of an earlier hop: the request that was answered by a redirect
\* is neither consumed nor destroyed, and its 60 s timer rejects the outer
\* promise while the redirected download is still running.
StaleTimeout(c) ==
    /\ ~crashed
    /\ call[c].hop > 1
    /\ call[c].promise = "pending"
    /\ call' = [call EXCEPT ![c] = Settle(@, "Timeout")]
    /\ UNCHANGED <<fs, crashed>>

\* request.on('error', reject): the connection fails
NetworkError(c) ==
    /\ ~crashed
    /\ call[c].req \in {"sent", "streaming"}
    /\ call[c].stream # "opening"
    /\ call' = [call EXCEPT ![c] = Settle([@ EXCEPT !.req = "done"], "IOError")]
    /\ UNCHANGED <<fs, crashed>>

\* fileStream.on('error'): unlink the file and reject
StreamError(c) ==
    /\ ~crashed
    /\ call[c].stream \in {"opening", "open", "ended"}
    /\ LET p == call[c].filepath
       IN  IF fs[p].state = "absent"
           THEN /\ crashed' = TRUE
                /\ call' = [call EXCEPT ![c].stream =
                              IF @ = "opening" THEN "failed" ELSE "errored"]
                /\ UNCHANGED fs
           ELSE /\ fs' = BreachCleanup(p)
                /\ call' = [call EXCEPT ![c] =
                              Settle([@ EXCEPT !.stream =
                                        IF @ = "opening" THEN "failed"
                                        ELSE "errored"], "IOError")]
                /\ UNCHANGED crashed

\* The async function resumes after the awaited fetch (or at once when the
\* file was cached): stat the file, extract, and return through
\* handleDocumentTool, which formats the result as an ordinary payload.
Resume(c) ==
    /\ ~crashed
    /\ call[c].pc = "settled"
    /\ LET r == call[c]
           ok == /\ r.promise \in {"none", "resolved"}
                 /\ fs[r.filepath].state # "absent"      \* fs.statSync(filepath)
                 /\ ExtName(r.filepath) = ".pdf"
       IN  call' = [call EXCEPT ![c] =
                      [r EXCEPT !.pc = "returned",
                                !.payload = IF ok THEN "success"
                                            ELSE "failure"]]
    /\ UNCHANGED <<fs, crashed>>

(***************************************************************************)
(* The extractor: extractPdfText, readExtractedFiles and the part of the   *)
(* retrieval entry points that follows the resolution of the file.  A text *)
(* is the sequence of the blocks it is concatenated from.                  *)
(***************************************************************************)
Block(t, p, name) == [t |-> t, p |-> p, name |-> name]

\* `PDF: ${basename}\n` + `Total Pages: ... | Extracted Pages: ... ` + '='.repeat(80)
Preamble == Block("preamble", 0, "")
\* `\n\n--- PAGE ${pageNum} ---\n\n`
PageHeader(p) == Block("header", p, "")
\* textResult.pages[pageNum - 1].text
PageText(p) == Block("page", p, "")
\* textResult.text
WholeText == Block("whole", 0, "")
\* `PDF file: ...\n\nError extracting text: ${error.message}\n\nFile location: ...`
Diagnostic == Block("diagnostic", 0, "")
\* '\n\n[Note: Used cached file - already downloaded]'
CachedNote == Block("cached-note", 0, "")

\* the extractedPages descriptor: `${a}-${b}`, validPages.join(', '), 'error'
RangeDescriptor(a, b) == [tag |-> "range", a |-> a, b |-> b, list |-> <<>>]
ListDescriptor(l) == [tag |-> "list", a |-> 0, b |-> 0, list |-> l]
ErrorDescriptor == [tag |-> "error", a |-> 0, b |-> 0, list |-> <<>>]

\* pageOptions.pages: undefined or an array of numbers
NoPages == [defined |-> FALSE, list |-> <<>>]
PageList(l) == [defined |-> TRUE, list |-> l]

\* the page numbers a to b, ascending (none when b < a)
PagesFromTo(a, b) == [i \in 1..(IF b >= a THEN b - a + 1 ELSE 0) |-> a + i - 1]

\* the loop bodies of lines 613-619 and 627-633: header, then the page text
RenderPages(pageNums) ==
    [i \in 1..(2 * Len(pageNums)) |->
        IF i % 2 = 1 THEN PageHeader(pageNums[(i + 1) \div 2])
        ELSE PageText(pageNums[i \div 2])]

\* The lower bound of a range, left as the caller gave it
ClampStart_Unclamped(startPage) == IF TruthyNumber(startPage) THEN startPage.n ELSE 1

\* Math.max(1, pageOptions.startPage || 1)
ClampStart(startPage) == Max(1, IF TruthyNumber(startPage) THEN startPage.n ELSE 1)

\* Math.min(totalPages, pageOptions.endPage || totalPages)
ClampEnd(endPage, totalPages) ==
    Min(totalPages, IF TruthyNumber(endPage) THEN endPage.n ELSE totalPages)

\* A filter of the page list that sorts what it keeps
ValidPages_Sorted(pages, totalPages) ==
    SelectSeq(PagesFromTo(1, totalPages), LAMBDA q : \E i \in 1..Len(pages) : pages[i] = q)

\* pageOptions.pages.filter(p => p >= 1 && p <= totalPages)
ValidPages(pages, totalPages) ==
    SelectSeq(pages, LAMBDA q : q >= 1 /\ q <= totalPages)

\* A parse failure that is thrown on to the caller
ParseFailure_Thrown == [thrown |-> TRUE, text |-> <<>>, totalPages |-> 0,
                        extractedPages |-> ErrorDescriptor]

\* the catch of extractPdfText (lines 656-663)
ParseFailure == [thrown |-> FALSE, text |-> <<Diagnostic>>, totalPages |-> 0,
                 extractedPages |-> ErrorDescriptor]

\* extractPdfText(filepath, pageOptions): pdf is the file (does it parse,
\* how many pages), opts the page options (given or not)
extractPdfText(pdf, opts) ==
    IF ~pdf.parses THEN ParseFailure
    ELSE LET totalPages == pdf.totalPages
             all == [thrown |-> FALSE, text |-> <<Preamble, WholeText>>,
                     totalPages |-> totalPages,
                     extractedPages |-> RangeDescriptor(1, totalPages)]
         IN  IF ~opts.given THEN all
             ELSE IF opts.pages.defined /\ Len(opts.pages.list) > 0
             THEN LET validPages == ValidPages(opts.pages.list, totalPages)
                  IN  [thrown |-> FALSE,
                       text |-> <<Preamble>> \o RenderPages(validPages),
                       totalPages |-> totalPages,
                       extractedPages |-> ListDescriptor(validPages)]
             ELSE IF TruthyNumber(opts.startPage) \/ TruthyNumber(opts.endPage)
             THEN LET startPage == ClampStart(opts.startPage)
                      endPage == ClampEnd(opts.endPage, totalPages)
                  IN  [thrown |-> FALSE,
                       text |-> <<Preamble>> \o RenderPages(PagesFromTo(startPage, endPage)),
                       totalPages |-> totalPages,
                       extractedPages |-> RangeDescriptor(startPage, endPage)]
             ELSE all

\* A file on disk as the extractor sees it: its basename and extension,
\* whether its text is longer than 50000 characters, and for a PDF whether
\* it parses and how many pages it has.
File(name, ext, long, parses, totalPages) ==
    [name |-> name, ext |-> ext, long |-> long, parses |-> parses,
     totalPages |-> totalPages]

\* extractPdfText(file): no page options
NoPageOptions ==
    [given |-> FALSE, startPage |-> NoNumber, endPage |-> NoNumber, pages |-> NoPages]

\* { startPage: args.start_page, endPage: args.end_page, pages: args.pages }
PageOptions(startPage, endPage, pages) ==
    [given |-> TRUE, startPage |-> startPage, endPage |-> endPage, pages |-> pages]

\* `Extracted ${files.length} file(s):\n\n`
CountLine(n) == Block("count", n, "")
\* '='.repeat(80) + `File: ${filename}` + '='.repeat(80)
FileHeader(name) == Block("file", 0, name)
\* fs.readFileSync(file, 'utf-8')
Literal(name) == Block("literal", 0, name)
\* content.substring(0, 50000)
First50000(name) == Block("first-50000", 0, name)
\* '\n\n[Content truncated - file too large]\n'
TruncatedNote == Block("truncated-note", 0, "")
\* `[Binary file - ${ext}]\n`
BinaryMarker(ext) == Block("binary", 0, ext)

\* the extensions read as text: by downloadAndExtract, by readExtractedFiles
TextExtensions == {".txt", ".csv", ".json", ".xml", ".html"}
ContainedTextExtensions == TextExtensions \cup {".md"}

\* The body of one file, never cut
FileBody_Uncapped(f) ==
    IF f.ext \in {".txt", ".csv", ".json", ".xml", ".html", ".md"}
    THEN <<Block("literal", 0, f.name)>>
    ELSE IF f.ext = ".pdf" THEN extractPdfText(f, NoPageOptions).text
    ELSE <<Block("binary", 0, f.ext)>>

\* the body readExtractedFiles appends for one file (lines 724-749)
FileBody(f) ==
    IF f.ext \in ContainedTextExtensions
    THEN IF f.long THEN <<First50000(f.name), TruncatedNote>>
         ELSE <<Literal(f.name)>>
    ELSE IF f.ext = ".pdf"
    THEN IF f.long THEN <<First50000(f.name), TruncatedNote>>
         ELSE extractPdfText(f, NoPageOptions).text
    ELSE <<BinaryMarker(f.ext)>>

\* readExtractedFiles(files)
RECURSIVE FileSections(_)
FileSections(files) ==
    IF files = <<>> THEN <<>>
    ELSE <<FileHeader(files[1].name)>> \o FileBody(files[1])
             \o FileSections(Tail(files))

readExtractedFiles(files) == <<CountLine(Len(files))>> \o FileSections(files)

\* DownloadResult
NoDescriptor == [tag |-> "none", a |-> 0, b |-> 0, list |-> <<>>]
NoResult ==
    [success |-> FALSE, content |-> <<>>, type |-> "", pages |-> 0,
     extractedPages |-> NoDescriptor, error |-> ""]
Success(content, type, pages, extractedPages) ==
    [success |-> TRUE, content |-> content, type |-> type, pages |-> pages,
     extractedPages |-> extractedPages, error |-> ""]
Failure(error) == [NoResult EXCEPT !.error = error]

\* downloadAndExtract from line 437 on: the file is at filepath
\* (downloaded, or cached when fileExists); dispatch on its extension
\* (for a .zip with its extraction directory absent or empty; the reuse
\* of the directory is the subject of ExtractArchive)
ExtractDownloaded(x) ==
    LET note == IF x.fileExists THEN <<CachedNote>> ELSE <<>>
    IN  IF x.file.ext = ".pdf"
        THEN LET r == extractPdfText(x.file, x.opts)
             IN  IF r.thrown THEN Failure("exception")
                 ELSE Success(r.text \o note, "pdf", r.totalPages, r.extractedPages)
        ELSE IF x.file.ext = ".zip"
        THEN IF ~x.unzips THEN Failure("ZIP extraction failed")
             ELSE Success(readExtractedFiles(x.entries) \o note, "zip", 0, NoDescriptor)
        ELSE IF x.file.ext \in TextExtensions
        THEN Success(<<Literal(x.file.name)>> \o note, "text", 0, NoDescriptor)
        ELSE Failure("Unsupported file type")

\* readDocumentPages from line 818 on
ExtractPages(x) ==
    IF x.file.ext # ".pdf" THEN Failure("This tool only supports PDF files")
    ELSE LET r == extractPdfText(x.file, x.opts)
         IN  IF r.thrown THEN Failure("exception")
             ELSE Success(r.text, "pdf", r.totalPages, r.extractedPages)

(***************************************************************************)
(* The extraction directory of an archive: the .zip branch of              *)
(* downloadAndExtract (lines 456-484) and extractZip.  The archive file is *)
(* on disk; unzip writes its entries one after the other, in archive       *)
(* order, over whatever the directory holds (-o), so the directory holds   *)
(* the first extractPath.count entries of the archive.                     *)
(***************************************************************************)
ZipCalls == 1..MaxZipCalls

\* the entries of the archive z.zip
ArchiveEntries ==
    <<File("a.txt", ".txt", FALSE, FALSE, 0), File("b.pdf", ".pdf", FALSE, TRUE, 2),
      File("c.bin", ".bin", FALSE, FALSE, 0)>>

Archives == {Take(ArchiveEntries, n) : n \in 1..MaxArchive}

NoDirectory == [exists |-> FALSE, count |-> 0]

IdleZipCall ==
    [pc |-> "idle", written |-> 0, reused |-> FALSE, files |-> <<>>,
     result |-> NoResult]

\* A test of the extraction directory that never accepts it
CachedExtraction_Never(dir) == FALSE

\* fs.existsSync(extractPath) && fs.readdirSync(extractPath).length > 0
CachedExtraction(dir) == dir.exists /\ dir.count > 0

\* getAllFiles(extractPath)
getAllFiles(dir) == Take(archive, dir.count)

\* lines 474-484: read the files and build the result
ZipResult(files) == Success(readExtractedFiles(files), "zip", 0, NoDescriptor)

\* downloadAndExtract reaches the .zip branch: reuse the extraction
\* directory, or call extractZip, which creates the directory (lines
\* 673-675) and starts unzip
ExtractArchive(c) ==
    /\ zcall[c].pc = "idle"
    /\ \A b \in ZipCalls : b < c => zcall[b].pc # "idle"
    /\ IF CachedExtraction(extractPath)
       THEN LET extractedFiles == getAllFiles(extractPath)
            IN  /\ zcall' = [zcall EXCEPT ![c] =
                               [@ EXCEPT !.pc = "returned", !.reused = TRUE,
                                         !.files = extractedFiles,
                                         !.result = ZipResult(extractedFiles)]]
                /\ UNCHANGED extractPath
       ELSE /\ zcall' = [zcall EXCEPT ![c].pc = "unzipping"]
            /\ extractPath' = [extractPath EXCEPT !.exists = TRUE]
    /\ UNCHANGED archive

\* unzip -o writes its next entry
UnzipEntry(c) ==
    /\ zcall[c].pc = "unzipping"
    /\ zcall[c].written < Len(archive)
    /\ zcall' = [zcall EXCEPT ![c].written = @ + 1]
    /\ extractPath' = [extractPath EXCEPT !.count = Max(@, zcall[c].written + 1)]
    /\ UNCHANGED archive

\* unzip exits with 0 after its last entry: extractZip lists the directory
\* and the call returns (lines 693-695, 474-484)
UnzipDone(c) ==
    /\ zcall[c].pc = "unzipping"
    /\ zcall[c].written = Len(archive)
    /\ LET files == getAllFiles(extractPath)
       IN  zcall' = [zcall EXCEPT ![c] =
                        [@ EXCEPT !.pc = "returned", !.files = files,
                                  !.result = ZipResult(files)]]
    /\ UNCHANGED <<extractPath, archive>>

\* unzip exits with an error (damaged archive, full disk, a warning) and
\* the PowerShell fallback fails too: extractZip throws (lines 686-690)
\* and the catch of downloadAndExtract returns the failure.  What was
\* written stays in the directory.
UnzipFails(c) ==
    /\ zcall[c].pc = "unzipping"
    /\ zcall' = [zcall EXCEPT ![c] =
                    [@ EXCEPT !.pc = "returned",
                              !.result = Failure("ZIP extraction failed")]]
    /\ UNCHANGED <<extractPath, archive>>

ZipIdle ==
    /\ zcall = [c \in ZipCalls |-> IdleZipCall]
    /\ extractPath = NoDirectory
    /\ archive = <<>>

DocIdle ==
    /\ call = [c \in Calls |-> IdleCall]
    /\ crashed = FALSE

GovIdle ==
    /\ result = Undefined
    /\ args = [max_items |-> NoNumber, fields |-> NoFields, summary |-> FALSE]
    /\ limited = NotLimited
    /\ gpc = "idle"

\* The inputs of the extractor
PdfFiles ==
    {File("a.pdf", ".pdf", FALSE, FALSE, 0)}
        \cup {File("a.pdf", ".pdf", FALSE, TRUE, n) : n \in 0..MaxPages}

StartEndValues == {NoNumber} \cup {Number(k) : k \in (-1..MaxSel) \cup {BigPage}}

PageLists ==
    {NoPages} \cup {PageList(l) : l \in UNION {[1..k -> 0..MaxListPage] : k \in 0..MaxListLen}}

\* every start/end pair with no page list or an empty one, and every page
\* list with a few start/end pairs beside it
PageSelectors ==
    {PageOptions(a, b, l) : a \in StartEndValues, b \in StartEndValues,
                            l \in {NoPages, PageList(<<>>)}}
    \cup {PageOptions(a, b, l) : a \in {NoNumber, Number(2)},
                                 b \in {NoNumber, Number(2)}, l \in PageLists}

\* the files an archive may hold
EntryShapes ==
    {File("a.txt", ".txt", FALSE, FALSE, 0), File("a.txt", ".txt", TRUE, FALSE, 0),
     File("b.pdf", ".pdf", FALSE, TRUE, 2), File("b.pdf", ".pdf", FALSE, FALSE, 0),
     File("b.pdf", ".pdf", TRUE, TRUE, 2),
     File("c.bin", ".bin", FALSE, FALSE, 0)}

EntryLists == UNION {[1..k -> EntryShapes] : k \in 0..MaxEntries}

DocumentTools == {"download_document", "read_document_pages"}

Input(tool, file, fileExists, opts, entries, unzips) ==
    [tool |-> tool, file |-> file, fileExists |-> fileExists, opts |-> opts,
     entries |-> entries, unzips |-> unzips]

NoInput ==
    Input("none", File("", "", FALSE, FALSE, 0), FALSE, NoPageOptions, <<>>, FALSE)

AllPages == PageOptions(NoNumber, NoNumber, NoPages)

ExtInputs ==
    {Input(t, f, e, o, <<>>, FALSE) :
        t \in DocumentTools, f \in PdfFiles, e \in BOOLEAN, o \in PageSelectors}
    \cup {Input(t, File("z.zip", ".zip", FALSE, FALSE, 0), e, AllPages, l, u) :
            t \in DocumentTools, e \in BOOLEAN, l \in EntryLists, u \in BOOLEAN}
    \cup {Input(t, File("n" \o x, x, FALSE, FALSE, 0), e, AllPages, <<>>, FALSE) :
            t \in DocumentTools, e \in BOOLEAN, x \in {".txt", ".md", ".bin"}}

ExtIdle ==
    /\ xin = NoInput
    /\ xres = NoResult
    /\ xpc = "idle"
    /\ ZipIdle

Init ==
    /\ GovIdle
    /\ DocIdle
    /\ ExtIdle
    /\ rootDir \in BOOLEAN
    /\ fs \in [Paths -> {AbsentFile, CachedFile}]
    /\ ~rootDir => fs = [p \in Paths |-> AbsentFile]
    /\ \A n \in Filenames : fs[DeeperPath(n)] = AbsentFile
    /\ \A n \in Filenames : fs[OutsidePath(n)] = AbsentFile

Next ==
    \/ \E c \in Calls : Invoke(c) /\ UNCHANGED <<gvars, xvars>>
    \/ \E c \in Calls : Response(c) /\ UNCHANGED <<gvars, xvars, rootDir>>
    \/ \E c \in Calls : Open(c) /\ UNCHANGED <<gvars, xvars, rootDir>>
    \/ \E c \in Calls : Data(c) /\ UNCHANGED <<gvars, xvars, rootDir>>
    \/ \E c \in Calls : End(c) /\ UNCHANGED <<gvars, xvars, rootDir>>
    \/ \E c \in Calls : Timeout(c) /\ UNCHANGED <<gvars, xvars, rootDir>>
    \/ \E c \in Calls : StaleTimeout(c) /\ UNCHANGED <<gvars, xvars, rootDir>>
    \/ \E c \in Calls : NetworkError(c) /\ UNCHANGED <<gvars, xvars, rootDir>>
    \/ \E c \in Calls : StreamError(c) /\ UNCHANGED <<gvars, xvars, rootDir>>
    \/ \E c \in Calls : Resume(c) /\ UNCHANGED <<gvars, xvars, rootDir>>

Spec == Init /\ [][Next]_vars
(***************************************************************************)
(* The market-data tool handler (handleNseTool / handleBseTool): the API   *)
(* result and the arguments are the inputs; the handler extracts the limit *)
(* options and governs the result.                                         *)
(***************************************************************************)
GovInit ==
    /\ result \in Values
    /\ args \in ToolArgs
    /\ limited = NotLimited
    /\ gpc = "called"
    /\ DocIdle
    /\ ExtIdle
    /\ fs = [p \in Paths |-> AbsentFile]
    /\ rootDir = TRUE

HandleTool ==
    /\ gpc = "called"
    /\ limited' = limitResponse(result, extractLimitOptions(args))
    /\ gpc' = "returned"
    /\ UNCHANGED <<result, args>>
    /\ UNCHANGED <<dvars, xvars>>

GovNext == HandleTool

SpecGov == GovInit /\ [][GovNext]_vars

(***************************************************************************)
(* The resolution step alone, over every state of the cache: calls arrive  *)
(* and resolve their file; nothing else runs.                              *)
(***************************************************************************)
ResolveInit ==
    /\ GovIdle
    /\ DocIdle
    /\ ExtIdle
    /\ rootDir \in BOOLEAN
    /\ fs \in [Paths -> {AbsentFile, CachedFile}]
    /\ ~rootDir => \A n \in Filenames :
                      /\ fs[RootPath(n)] = AbsentFile
                      /\ fs[NestedPath(n)] = AbsentFile
                      /\ fs[DeeperPath(n)] = AbsentFile

ResolveNext ==
    \E c \in Calls :
        /\ InvokeWith(c, Filenames \cup EscapingNames, Urls \cup EscapingUrls)
        /\ UNCHANGED <<gvars, xvars>>

SpecResolve == ResolveInit /\ [][ResolveNext]_vars

(***************************************************************************)
(* The extraction step of a retrieval call: the file has been resolved;    *)
(* the entry point extracts it and builds its DownloadResult.              *)
(***************************************************************************)
ExtInit ==
    /\ GovIdle
    /\ DocIdle
    /\ fs = [p \in Paths |-> AbsentFile]
    /\ rootDir = TRUE
    /\ xin \in {x \in ExtInputs : x.tool = "download_document" \/ ~x.fileExists}
    /\ xres = NoResult
    /\ xpc = "called"
    /\ ZipIdle

Extract ==
    /\ xpc = "called"
    /\ xres' = IF xin.tool = "download_document" THEN ExtractDownloaded(xin)
               ELSE ExtractPages(xin)
    /\ xpc' = "returned"
    /\ UNCHANGED <<xin, gvars, dvars, zvars>>

ExtNext == Extract

SpecExt == ExtInit /\ [][ExtNext]_vars

(***************************************************************************)
(* Retrieval calls of one archive whose file is in the cache: each call    *)
(* reuses the extraction directory or expands the archive into it.         *)
(***************************************************************************)
ZipInit ==
    /\ GovIdle
    /\ DocIdle
    /\ fs = [p \in Paths |-> AbsentFile]
    /\ rootDir = TRUE
    /\ xin = NoInput
    /\ xres = NoResult
    /\ xpc = "idle"
    /\ zcall = [c \in ZipCalls |-> IdleZipCall]
    /\ extractPath = NoDirectory
    /\ archive \in Archives

ZipNext ==
    \/ \E c \in ZipCalls : ExtractArchive(c) /\ UNCHANGED <<gvars, dvars, xin, xres, xpc>>
    \/ \E c \in ZipCalls : UnzipEntry(c) /\ UNCHANGED <<gvars, dvars, xin, xres, xpc>>
    \/ \E c \in ZipCalls : UnzipDone(c) /\ UNCHANGED <<gvars, dvars, xin, xres, xpc>>
    \/ \E c \in ZipCalls : UnzipFails(c) /\ UNCHANGED <<gvars, dvars, xin, xres, xpc>>

SpecZip == ZipInit /\ [][ZipNext]_vars



(***************************************************************************)
(* Claims about the governor (checked under SpecGov)                       *)
(***************************************************************************)
options == extractLimitOptions(args)
GovReturned == gpc = "returned"
WordCount == countWords(Stringify(result))
\* the caller supplied no filter argument at all
NoFilterGiven == ~args.max_items.defined /\ ~args.fields.defined /\ ~args.summary
\* the caller supplied a filter argument that is set: a non-zero max_items,
\* a fields list, or summary = true
FilterSet == (args.max_items.defined /\ args.max_items.n # 0)
             \/ args.fields.defined \/ args.summary
\* tokens of the payload handed back: data itself when it is a string,
\* JSON.stringify(data, null, 2) otherwise
PayloadWords == countWords(Stringify(limited.data))

C4_PayloadBounded ==
    GovReturned => PayloadWords <= MAX_WORDS + MarkerWords

\* C5: an over-ceiling list governed with no filter option is answered with
\* the metadata (never a cut list): truncated, exceedsLimit, and a
\* recommended maxItems of at least 10.
C5_ListMetadata ==
    (GovReturned /\ IsArray(result) /\ WordCount > MAX_WORDS /\ NoFilterGiven) =>
        /\ limited.truncated
        /\ limited.hasMetadata
        /\ limited.metadata.exceedsLimit
        /\ limited.metadata.totalItems = Number(Len(result.items))
        /\ limited.metadata.recommendedFilters.defined
        /\ limited.metadata.recommendedFilters.maxItems >= 10
        /\ IsObject(limited.data)
        /\ Keys(limited.data) = <<"_metadata", "_message", "_instructions">>
        /\ Get(limited.data, "_metadata") = MetadataJson(limited.metadata)

C5_Witness ==
    /\ GovReturned /\ IsArray(result) /\ WordCount > MAX_WORDS /\ NoFilterGiven
    /\ ItemsThatFit(Take(result.items, 3), 3) < 10
    /\ limited.hasMetadata

\* C6 as stated: a record with a top-level list of more than 10 elements,
\* governed with no options, comes back with the list cut to 10 and a
\* sibling "<field>_truncated" = "Showing 10 of <n> items".
HasLongItems ==
    /\ IsObject(result) /\ HasKey(result, "items")
    /\ IsArray(Get(result, "items")) /\ Len(Get(result, "items").items) > 10

ItemsCutTo10(d) ==
    /\ IsObject(d) /\ HasKey(d, "items") /\ HasKey(d, "items_truncated")
    /\ Get(d, "items") = JList(Take(Get(result, "items").items, 10))
    /\ Get(d, "items_truncated") = Showing(Len(Get(result, "items").items))
    /\ \A k \in {"name"} : HasKey(result, k) => Get(d, k) = Get(result, k)

C6_NoOptionsTruncates ==
    (GovReturned /\ HasLongItems /\ NoFilterGiven) => ItemsCutTo10(limited.data)

\* C6 amended: the cut happens when the record exceeds the ceiling and a
\* filter option is set; the cut record is returned when it fits the
\* ceiling, and its text cut at the ceiling otherwise.  With no options the
\* record is returned unmodified (within the ceiling) or replaced by the
\* metadata (over it).
CutRecord == JRec(TruncateArrays(result.fields, Keys(result)))

C6_FilteredRecordTruncates ==
    /\ (GovReturned /\ HasLongItems /\ WordCount > MAX_WORDS /\ FilterSet) =>
          /\ ItemsCutTo10(CutRecord)
          /\ limited.truncated
          /\ IF countWords(Stringify(CutRecord)) <= MAX_WORDS
             THEN limited.data = CutRecord
             ELSE limited.data.kind = "truncated"
    /\ (GovReturned /\ HasLongItems /\ NoFilterGiven) =>
          IF WordCount <= MAX_WORDS
          THEN limited.data = result /\ ~limited.truncated
          ELSE limited.hasMetadata /\ ~ItemsCutTo10(limited.data)

C6_Witness ==
    /\ GovReturned /\ HasLongItems /\ WordCount > MAX_WORDS /\ FilterSet
    /\ Len(Get(result, "items").items) = 21
    /\ limited.data = CutRecord
    /\ Get(limited.data, "items_truncated") = Showing(21)

\* C10: for a list result and a positive max_items = n, the response holds
\* at most n of the list's items.
ItemsReturned ==
    IF limited.data.kind \in {"list", "summary"} THEN Len(limited.data.items)
    ELSE 0

C10_MaxItemsRespected ==
    (GovReturned /\ IsArray(result) /\ args.max_items.defined /\ args.max_items.n > 0)
        => ItemsReturned <= args.max_items.n

(***************************************************************************)
(* Claims about the document retrieval engine (checked under Spec)         *)
(***************************************************************************)

\* the files under the cache root whose basename is the name
FilesNamed(name) == {p \in Paths : p.base = name /\ fs[p].state # "absent"}

\* C1: over any sequence of download_document and read_document_pages
\* calls, a fetch is started only in a step before which no file exists at
\* the resolved cache path and, when a filename is given, no file of that
\* basename exists anywhere under the cache root.
C1_FetchOnlyIfNotCached ==
    [][\A c \in Calls :
          (~Fetched(c) /\ Fetched(c)') =>
              /\ fs[call'[c].filepath].state = "absent"
              /\ call'[c].filename # NoName =>
                     FilesNamed(call'[c].filename) = {}]_vars

\* a call named the file and fetched it; a later call found the file
\* on disk and answered from it without a fetch
C1_Witness ==
    \E c, d \in Calls :
        /\ c \in call[d].after
        /\ Fetched(c) /\ call[c].filename # NoName
        /\ call[c].promise = "resolved"
        /\ ~Fetched(d) /\ call[d].payload = "success"
        /\ call[d].filepath = call[c].filepath

\* the file a fetch of call c left half-written at its destination
LeftPartial(c) ==
    /\ fs[call[c].filepath].state = "partial"
    /\ fs[call[c].filepath].writer = c

\* C2: once a fetch has failed and its request is over, no partial file
\* that the fetch created remains at its destination path.
C2_NoPartialFileAfterFailure ==
    \A c \in Calls :
        (Fetched(c) /\ call[c].promise \in Failures /\ call[c].req = "done")
            => ~LeftPartial(c)

\* the terminal response of call c's fetch was received
TerminalResponse(c) == call[c].status # 0

\* nothing was downloaded and no file was opened by call c's fetch
NothingWritten(c) ==
    /\ call[c].downloadedBytes = 0
    /\ call[c].stream = "none"
    /\ \A p \in Paths : fs[p].writer # c

Resolving(c) ==
    /\ call[c].tool = "read_document_pages"
    /\ call[c].pc # "idle"
    /\ call[c].payload # "isError"

\* readDocumentPages is called for c2 after the call c1 with the same
\* arguments has returned, and no other call has been made
InSequence(c1, c2) ==
    /\ c1 \in call[c2].after
    /\ Resolving(c1) /\ Resolving(c2)
    /\ \A b \in Calls \ {c1, c2} : call[b].pc = "idle"
    /\ call[c1].filename = call[c2].filename
    /\ call[c1].url = call[c2].url

Failed(c) == call[c].promise \in Failures

\* C9: no exception raised while a tool call is served, the callbacks of
\* the fetch included, escapes the entry points, and a call that met an
\* internal failure returns an error payload.
C9_NoFaultEscapes ==
    /\ ~crashed
    /\ \A c \in Calls :
          (Returned(c) /\ Failed(c)) => call[c].payload \in {"failure", "isError"}

(***************************************************************************)
(* Claims about the extractor (checked under SpecExt)                      *)
(***************************************************************************)
ExtReturned == xpc = "returned"

\* a PDF that parses was extracted
ParsedPdf == ExtReturned /\ xin.file.ext = ".pdf" /\ xin.file.parses

\* the page numbers of the page texts in the extracted content, in order
ExtractedPageNumbers ==
    LET texts == SelectSeq(xres.content, LAMBDA b : b.t = "page")
    IN  [i \in 1..Len(texts) |-> texts[i].p]

\* every page text directly follows the header of its page
EachUnderItsHeader ==
    \A i \in 1..Len(xres.content) :
        xres.content[i].t = "page" =>
            i > 1 /\ xres.content[i - 1] = PageHeader(xres.content[i].p)

\* the call carries a range selector: start and end given, no page list
RangeSelector ==
    /\ ~xin.opts.pages.defined
    /\ xin.opts.startPage.defined
    /\ xin.opts.endPage.defined

C12_ClampedBoundsOrdered ==
    (ParsedPdf /\ RangeSelector /\ xin.file.totalPages >= 1
        /\ 1 <= xin.opts.startPage.n
        /\ xin.opts.startPage.n <= xin.opts.endPage.n) =>
        /\ xres.extractedPages.tag = "range"
        /\ 1 <= xres.extractedPages.a
        /\ xres.extractedPages.a <= xres.extractedPages.b
        /\ xres.extractedPages.b <= xin.file.totalPages

\* the call carries a page list that is not empty
ExplicitPages == xin.opts.pages.defined /\ xin.opts.pages.list # <<>>

\* C13: for an explicit page list, the pages extracted are exactly the
\* listed numbers within 1..totalPages, in the caller's order, each under
\* its page header; numbers outside are dropped and the call succeeds.
C13_ExplicitPagesInOrder ==
    (ParsedPdf /\ ExplicitPages) =>
        LET listed == xin.opts.pages.list
            kept == {i \in 1..Len(listed) :
                        listed[i] >= 1 /\ listed[i] <= xin.file.totalPages}
            \* the position in the list of the j-th kept number
            Pos(j) == CHOOSE i \in kept : Cardinality({k \in kept : k <= i}) = j
        IN  /\ xres.success
            /\ Len(ExtractedPageNumbers) = Cardinality(kept)
            /\ \A j \in 1..Cardinality(kept) :
                   ExtractedPageNumbers[j] = listed[Pos(j)]
            /\ EachUnderItsHeader
            /\ xres.extractedPages = ListDescriptor(ExtractedPageNumbers)

C13_Witness ==
    /\ ParsedPdf /\ ExplicitPages
    /\ xin.opts.pages.list = <<3, 0, 1>>
    /\ xin.file.totalPages = 5
    /\ ExtractedPageNumbers = <<3, 1>>

\* C14: when the PDF does not parse, the extraction returns the degraded
\* result (diagnostic text, totalPages 0, descriptor "error") and the
\* retrieval call that encloses it reports success.
C14_ParseFailureDegrades ==
    (ExtReturned /\ xin.file.ext = ".pdf" /\ ~xin.file.parses) =>
        /\ xres.success
        /\ xres.error = ""
        /\ xres.pages = 0
        /\ xres.extractedPages = ErrorDescriptor
        /\ xres.content[1] = Diagnostic
        /\ \A i \in 1..Len(xres.content) :
               xres.content[i] \in {Diagnostic, CachedNote}

C14_Witness ==
    /\ ExtReturned /\ xin.file.ext = ".pdf" /\ ~xin.file.parses
    /\ xin.tool = "read_document_pages"
    /\ xres.success /\ xres.extractedPages = ErrorDescriptor

(***************************************************************************)
(* Claims about the resolution step (checked under SpecResolve)            *)
(***************************************************************************)

\* C15: with a filename, the file is resolved in this order whatever the
\* cache holds: the direct path in the cache root if it exists; else the
\* first file of that basename that the recursive listing meets; else, with
\* a url, a download to the direct path; else a failure with no fetch and
\* no file written.
C15_ResolutionOrder ==
    \A c \in Calls :
        (Resolving(c) /\ call[c].filename \in Filenames) =>
            LET direct == RootPath(call[c].filename)
                nested == NestedPath(call[c].filename)
                deeper == DeeperPath(call[c].filename)
            IN  IF fs[direct].state # "absent"
                THEN call[c].filepath = direct /\ ~Fetched(c)
                ELSE IF fs[nested].state # "absent"
                THEN call[c].filepath = nested /\ ~Fetched(c)
                ELSE IF fs[deeper].state # "absent"
                THEN call[c].filepath = deeper /\ ~Fetched(c)
                ELSE IF call[c].url # NoUrl
                THEN call[c].filepath = direct /\ Fetched(c)
                ELSE /\ ~Fetched(c)
                     /\ Returned(c) /\ call[c].payload = "failure"
                     /\ \A p \in Paths : fs[p].writer # c

(***************************************************************************)
(* Further claims about the document retrieval engine (under Spec)         *)
(***************************************************************************)

\* C16: a call to a document tool that the server lists (download_document,
\* read_document_pages) reaches its retrieval entry point and is never
\* answered with the unknown-tool error.
C16_DocumentToolsDispatched ==
    \A c \in Calls :
        call[c].tool \in DocumentTools => call[c].payload # "isError"

(***************************************************************************)
(* Further claims about the extractor (under SpecExt)                      *)
(***************************************************************************)

\* an archive was extracted and its files read
ContainerRead == ExtReturned /\ xin.file.ext = ".zip" /\ xres.success

\* the text of the archive, without the note of the cached download
ContainerText == SelectSeq(xres.content, LAMBDA b : b # CachedNote)

\* the positions of the file-name headers in the text
HeaderPositions == {i \in 1..Len(ContainerText) : ContainerText[i].t = "file"}

\* the position of the j-th header; past the last one, the end of the text
HeaderAt(j) ==
    IF j > Cardinality(HeaderPositions) THEN Len(ContainerText) + 1
    ELSE CHOOSE i \in HeaderPositions :
             Cardinality({k \in HeaderPositions : k <= i}) = j

\* what follows the j-th header, up to the next header
SectionBody(j) == SubSeq(ContainerText, HeaderAt(j) + 1, HeaderAt(j + 1) - 1)

\* the text of a whole PDF, or the diagnostic when it does not parse
WholePdfText(f) == IF f.parses THEN <<Preamble, WholeText>> ELSE <<Diagnostic>>

\* count line first, then one header per contained file in order
CountLineAndHeaders ==
    /\ ContainerText[1] = CountLine(Len(xin.entries))
    /\ Cardinality(HeaderPositions) = Len(xin.entries)
    /\ Len(xin.entries) > 0 => HeaderAt(1) = 2
    /\ \A j \in 1..Len(xin.entries) :
           ContainerText[HeaderAt(j)] = FileHeader(xin.entries[j].name)

Payload == formatLimitedResponse(limited)

\* C18: the formatted payload carries a banner (metadata or advisory) if
\* and only if the governor reported truncation; a value that is returned
\* complete is formatted as the serialized value alone, without a banner.
C18_BannerIffTruncated ==
    GovReturned =>
        /\ (Payload.banner # "none") <=> limited.truncated
        /\ ~limited.truncated => (Payload.banner = "none" /\ Payload.body = result)
        /\ WordCount <= MAX_WORDS => ~limited.truncated

\* a filtered list was cut and the payload carries the advisory line
C18_Witness ==
    /\ GovReturned /\ limited.truncated /\ ~limited.hasMetadata
    /\ IsArray(result) /\ limited.data # result
    /\ Payload.banner = "advisory"

(***************************************************************************)
(* Claims about concurrent calls and the streaming size check (under Spec) *)
(***************************************************************************)

\* C19: retrieval calls for the same target are not serialized.  A call
\* that arrives while another call is fetching the target and the file is
\* not on disk yet starts a second fetch to the same destination path.
C19_NoMutualExclusion ==
    [][\A c, d \in Calls :
          (/\ c # d
           /\ call[c].pc = "fetching"
           /\ fs[call[c].filepath].state = "absent"
           /\ call[d].pc = "idle" /\ call'[d].pc # "idle"
           /\ call'[d].payload # "isError"
           /\ call'[d].url = call[c].url
           /\ call'[d].filename = call[c].filename)
          => /\ Fetched(d)'
             /\ call'[d].filepath = call[c].filepath]_vars

\* both calls found the file absent, both fetches are in flight and both
\* write streams are open on the same destination path
C19_Witness ==
    \E c, d \in Calls :
        /\ c # d
        /\ call[c].pc = "fetching" /\ call[d].pc = "fetching"
        /\ call[c].filepath = call[d].filepath
        /\ call[c].req = "streaming" /\ call[d].req = "streaming"
        /\ call[c].stream = "open" /\ call[d].stream = "open"

\* the bytes received by call c's fetch exceed its ceiling
Breached(c) == call[c].downloadedBytes > call[c].maxBytes

\* C20: once the bytes received while streaming exceed maxBytes, the
\* transfer is aborted, the fetch fails with the size-exceeded error and
\* no partial file of the fetch is left at the destination path; the
\* server keeps running.
C20_BreachAbortsAndDeletes ==
    \A c \in Calls :
        Breached(c) =>
            /\ ~crashed
            /\ call[c].req = "done"
            /\ call[c].promise = "SizeExceeded"
            /\ ~LeftPartial(c)

(***************************************************************************)
(* Claims about redirects (under Spec)                                     *)
(***************************************************************************)

\* the settled outcome of call c's fetch is what its current (last) hop
\* did: its response ended and the stream finished, its status was refused,
\* its size was over the ceiling, its request timed out or failed
OutcomeOfTerminalHop(c) ==
    CASE call[c].promise = "resolved" ->
            call[c].req = "done" /\ call[c].stream = "finished"
      [] call[c].promise = "HttpError" ->
            call[c].req = "done" /\ call[c].status \notin {0, 200}
      [] call[c].promise = "SizeExceeded" ->
            call[c].oversize \/ Breached(c)
      [] call[c].promise = "Timeout" -> call[c].req = "done"
      [] call[c].promise = "IOError" ->
            call[c].req = "done" \/ call[c].stream \in {"failed", "errored"}
      [] OTHER -> FALSE

\* C21: a redirect is followed with the same destination path and the same
\* byte ceiling, hop after hop, and the outcome of the whole fetch is the
\* outcome of the terminal hop.
C21_RedirectOutcomeIsTerminalHop ==
    [][\A c \in Calls :
          /\ (call[c].hop > 0 /\ call'[c].hop = call[c].hop + 1)
                => /\ call'[c].filepath = call[c].filepath
                   /\ call'[c].maxBytes = call[c].maxBytes
                   /\ call'[c].req = "sent"
                   /\ call'[c].promise = call[c].promise
          /\ (call[c].hop > 1 /\ call[c].promise = "pending"
                /\ call'[c].promise # "pending")
                => OutcomeOfTerminalHop(c)']_vars

(***************************************************************************)
(* Claims about the extraction directory (under SpecZip)                   *)
(***************************************************************************)

\* the extraction directory exists and holds at least one entry
DirectoryNonEmpty == extractPath.exists /\ extractPath.count > 0

\* the files of the extraction directory, as enumerated
DirectoryFiles == Take(archive, extractPath.count)

\* C22: a retrieval of an archive whose extraction directory exists and is
\* non-empty does not run the expansion again and returns the files
\* enumerated from the existing directory; the expansion runs only when
\* the directory is absent or empty.
C22_ExtractionReused ==
    [][\A c \in ZipCalls :
          (zcall[c].pc = "idle" /\ zcall'[c].pc # "idle")
          => IF DirectoryNonEmpty
             THEN /\ zcall'[c].pc = "returned"
                  /\ zcall'[c].written = 0
                  /\ extractPath' = extractPath
                  /\ zcall'[c].files = DirectoryFiles
                  /\ zcall'[c].result = ZipResult(DirectoryFiles)
             ELSE /\ zcall'[c].pc = "unzipping"
                  /\ ~zcall'[c].reused]_vars

\* a first call expanded the whole archive and a later call returned the
\* same files from the directory without expanding
C22_Witness ==
    \E c, d \in ZipCalls :
        /\ c < d
        /\ zcall[c].pc = "returned" /\ zcall[c].result.success
        /\ zcall[c].written = Len(archive) /\ Len(archive) > 1
        /\ zcall[d].pc = "returned" /\ zcall[d].reused /\ zcall[d].written = 0
        /\ zcall[d].files = archive
        /\ zcall[d].result = zcall[c].result

\* call b ran the expansion and it finished successfully
ExpandedSuccessfully(b) ==
    /\ zcall[b].pc = "returned" /\ ~zcall[b].reused
    /\ zcall[b].result.success

\* C30: whenever a call reuses the extraction directory, the directory
\* holds the complete result of an expansion that finished successfully;
\* a failed expansion never leaves a directory that later calls accept.
C30_ReusedExtractionComplete ==
    \A c \in ZipCalls :
        zcall[c].reused =>
            /\ zcall[c].files = archive
            /\ \E b \in ZipCalls : ExpandedSuccessfully(b)

(***************************************************************************)
(* Further claims about the filter strategies (under SpecGov)              *)
(***************************************************************************)

\* the result is a list whose serialization is over the ceiling
OverCeilingList == GovReturned /\ IsArray(result) /\ WordCount > MAX_WORDS

\* the field names a summary lists
SummaryFieldNames == [i \in 1..Len(limited.data.fields) |-> limited.data.fields[i].key]

FieldsOnly ==
    /\ ~TruthyNumber(args.max_items) /\ TruthyFields(args.fields) /\ ~args.summary

\* the number of items the filtered list holds, as the message reports it
\* (`Showing ${limitedData.length} of ${data.length} items`)
ItemsShown == limited.message.shown

\* what step 3 recommends for the same list: max(10, floor(ceiling / wordsPerItem))
\* with wordsPerItem a third of the words of the 3-item sample
Step3MaxItems ==
    Max(10, (MAX_WORDS * 3) \div countWords(Stringify(JList(Take(result.items, 3)))))

\* floor(ceiling / wordsPerItem) with wordsPerItem estimated from the first
\* min(3, length) items
SampleSize == Min(3, Len(result.items))
FloorEstimate ==
    (MAX_WORDS * SampleSize)
        \div countWords(Stringify(JList(Take(result.items, SampleSize))))

\* C24 (as claimed): with filter options that carry no item cap, the cap
\* applied to an over-ceiling list is the maxItems that step 3 recommends,
\* max(10, floor(ceiling / wordsPerItem)).
C24_CapEqualsRecommendation ==
    (OverCeilingList /\ FieldsOnly) =>
        /\ limited.message.tag = "limited"
        /\ ItemsShown = Min(Len(result.items), Step3MaxItems)

\* C24 (amended): the cap applied is floor(ceiling / wordsPerItem) without
\* the lower bound of 10, the sample being the first min(3, length) items;
\* an estimate of 0 applies no cap.
C24_CapIsFloorEstimate ==
    (OverCeilingList /\ FieldsOnly) =>
        /\ limited.message.tag = "limited"
        /\ ItemsShown = IF FloorEstimate > 0
                        THEN Min(Len(result.items), FloorEstimate)
                        ELSE Len(result.items)

\* a list of 7 long strings governed with a field list only: 2 items fit
\* and 2 are shown, where step 3 recommends 10
C24_Witness ==
    /\ OverCeilingList /\ FieldsOnly
    /\ Len(result.items) = 7
    /\ FloorEstimate = 2 /\ Step3MaxItems = 10
    /\ ItemsShown = 2

\* an item cap n > 0 was supplied
CapGiven == args.max_items.defined /\ args.max_items.n > 0

\* the fields of a record, as a set
FieldSet(v) == {v.fields[i] : i \in 1..Len(v.fields)}

\* element out is element orig as the claim filters it: a record keeps
\* exactly its fields named in the field list (all of them when no field
\* list is given), any other element is unchanged
ElementAsClaimed(orig, out) ==
    IF IsObject(orig) /\ args.fields.defined
    THEN /\ IsObject(out)
         /\ Cardinality(FieldSet(out)) = Len(out.fields)
         /\ FieldSet(out) =
              {f \in FieldSet(orig) :
                  \E j \in 1..Len(args.fields.names) : args.fields.names[j] = f.key}
    ELSE out = orig

\* the number of elements the claim keeps: min(n, length), all without a cap
ClaimedLength ==
    IF CapGiven THEN Min(args.max_items.n, Len(result.items)) ELSE Len(result.items)

\* C25: an over-ceiling list governed with an item cap n > 0 and/or a field
\* list (no summary) is filtered to its first min(n, length) elements in
\* their order, each record element keeping exactly its fields named in
\* the field list and each non-record element unchanged.
C25_CapThenProjection ==
    (OverCeilingList /\ ~args.summary /\ (CapGiven \/ args.fields.defined)) =>
        /\ limited.message.tag = "limited"
        /\ ItemsShown = ClaimedLength
        /\ IsArray(limited.data) =>
              /\ Len(limited.data.items) = ClaimedLength
              /\ \A i \in 1..ClaimedLength :
                    ElementAsClaimed(result.items[i], limited.data.items[i])

\* the name of the sibling field that records the original length
SiblingOf(key) == key \o "_truncated"

\* C26: for an over-ceiling record governed with filter options, every
\* top-level field that is a list of more than 10 elements is replaced by
\* its first 10 elements and gets a sibling recording the original length,
\* every other top-level field is left unchanged, and the input record is
\* not modified.
C26_RecordTruncationFrame ==
    /\ [](GovReturned /\ IsObject(result) /\ WordCount > MAX_WORDS /\ FilterSet
            /\ IsObject(limited.data) =>
          \A i \in 1..Len(result.fields) :
              LET key == result.fields[i].key
                  val == result.fields[i].val
              IN  IF IsArray(val) /\ Len(val.items) > 10
                  THEN /\ Get(limited.data, key) = JList(Take(val.items, 10))
                       /\ HasKey(limited.data, SiblingOf(key))
                       /\ Get(limited.data, SiblingOf(key)) = Showing(Len(val.items))
                  ELSE /\ HasKey(limited.data, key)
                       /\ Get(limited.data, key) = val)
    /\ [][result' = result]_vars

(***************************************************************************)
(* Further claims about the cache and the fetch (under Spec)               *)
(***************************************************************************)

\* call c skipped the fetch in this step: it found its file in the cache
SkipsFetch(c) ==
    /\ call[c].pc = "idle" /\ call'[c].pc = "settled"
    /\ call'[c].promise = "none"

\* C27: whenever a call skips the fetch because a file exists at the
\* resolved cache path, that file is the complete output of a fetch that
\* finished successfully, never the partial output of a fetch in flight or
\* of a failed fetch.
C27_CachedFileComplete ==
    [][\A c \in Calls :
          SkipsFetch(c) => fs[call'[c].filepath].state = "complete"]_vars

\* the fetch of call c failed because the bytes received exceeded the
\* ceiling while streaming
FailedMidStream(c) == Breached(c) /\ call[c].promise = "SizeExceeded"

\* no other call has a request or a write stream in flight
OnlyFetch(c) ==
    \A d \in Calls \ {c} :
        /\ call[d].req \notin {"sent", "streaming"}
        /\ call[d].stream \notin {"opening", "open", "ended"}

\* C29: after a fetch has failed by exceeding the ceiling mid-stream, the
\* further chunks of the response trigger nothing: no second delete of the
\* removed file is attempted and no error is raised from a callback.
C29_NoSecondDelete ==
    [][\A c \in Calls :
          (FailedMidStream(c) /\ OnlyFetch(c) /\ ~crashed)
              => (~crashed' /\ fs' = fs)]_vars

(***************************************************************************)
(* Claims about the resolved path (under SpecResolve)                      *)
(***************************************************************************)

\* the path lies in the cache root directory or below it
InsideCacheRoot(p) ==
    \E n \in Filenames : p \in {RootPath(n), NestedPath(n), DeeperPath(n)}

\* C28: for every filename and url a caller supplies, every path a call
\* reads as its cached file or writes as its download destination lies
\* inside the cache root directory.
C28_PathInsideCacheRoot ==
    \A c \in Calls :
        call[c].filepath # NoPath => InsideCacheRoot(call[c].filepath)

====
